---- MODULE Spec2Model ----
(***************************************************************************)
(* A model of the Conectric USB gateway protocol engine (src/index.js):    *)
(* the serial record handler with its identity gate, parseMessage with its *)
(* header checks, type registry, burst de-duplication cache and payload    *)
(* decoders, and the outbound command builders.                            *)
(*                                                                         *)
(* JavaScript strings are sequences of one-character strings, so that      *)
(* substring, startsWith, parseInt and concatenation are computed the way  *)
(* the code computes them.  An object is a function from the names of the  *)
(* properties it has to their values.                                      *)
(***************************************************************************)
EXTENDS Integers, Sequences, FiniteSets, TLC

VARIABLES
    params,            \* conectricUsbGateway.params: the caller's options object
    macAddress,        \* conectricUsbGateway.macAddress
    contikiVersion,    \* conectricUsbGateway.contikiVersion
    conectricVersion,  \* conectricUsbGateway.conectricVersion
    serialPort,        \* conectricUsbGateway.serialPort: None, or the port, open or closed
    parser,            \* conectricUsbGateway.parser: None or the Readline parser
    device,            \* whether the router is plugged in (what serialport.list sees)
    pendingStarts,     \* startGateway calls scheduled by setTimeout and not yet run
    cache,             \* memory-cache-ttl: key -> seconds since cache.set
    sweepPhase,        \* seconds since the cache's last periodic sweep
    rec,               \* the record or the parameter object of the last call
    out,               \* what the last handler did: its kind and, for a callback, the message
    written,           \* the last line handed to serialPort.write by a builder
    sendParams,        \* the object the caller handed to the last builder, as the builder left it
    crashed,           \* an exception left a handler uncaught: the process is gone
    delivered,         \* observer: frame -> seconds since onSensorMessage last ran for it
    handshakes,        \* the bring-up timers that wait: number of the chain -> command it writes next
    lastSent,          \* observer: number of the chain -> the command the chain wrote last
    got                \* observer: the replies received since the router was last lost

vars == <<params, macAddress, contikiVersion, conectricVersion, serialPort, parser,
          device, pendingStarts, cache, sweepPhase, rec, out, written, sendParams, crashed,
          delivered, handshakes, lastSent, got>>

-----------------------------------------------------------------------------
(* Values of JavaScript.                                                   *)

\* undefined, where a string is expected: no string, as its one element is no character
Undefined == <<"undefined">>

\* undefined where an object is looked for: an object without the keys of any other
NoObject == [undefined |-> TRUE]

\* undefined, where a name or a handle is expected
None == "undefined"

\* NaN, as parseInt returns it for a string that starts with no hex digit
NaN == -100000

\* the empty string
Empty == <<>>

\* a value used in a condition: undefined and '' are falsy, other strings truthy
Truthy(v) == v # Undefined /\ v # Empty

Min(a, b) == IF a < b THEN a ELSE b

Max(a, b) == IF a > b THEN a ELSE b

\* String.prototype.substring(from, to): both ends clamped to the string
Substring(s, from, to) ==
    LET lo == Min(Max(from, 0), Len(s))
        hi == Min(Max(to, 0), Len(s))
    IN  SubSeq(s, Min(lo, hi) + 1, Max(lo, hi))

\* String.prototype.substring(from)
SubstringFrom(s, from) == Substring(s, from, Len(s))

\* String.prototype.startsWith(prefix)
StartsWith(s, prefix) ==
    /\ Len(s) >= Len(prefix)
    /\ SubSeq(s, 1, Len(prefix)) = prefix

LowerOf(c) ==
    CASE c = "A" -> "a" [] c = "B" -> "b" [] c = "C" -> "c" [] c = "D" -> "d"
      [] c = "E" -> "e" [] c = "F" -> "f" [] c = "K" -> "k" [] c = "I" -> "i"
      [] c = "N" -> "n" [] c = "O" -> "o" [] c = "R" -> "r" [] c = "T" -> "t"
      [] c = "V" -> "v" [] OTHER -> c

\* String.prototype.toLowerCase()
ToLowerCase(s) == [i \in 1..Len(s) |-> LowerOf(s[i])]

HexDigits == <<"0", "1", "2", "3", "4", "5", "6", "7",
               "8", "9", "a", "b", "c", "d", "e", "f">>

\* the value of every hex digit, of either case
HexValues ==
    [c \in {"0", "1", "2", "3", "4", "5", "6", "7", "8", "9", "a", "b", "c", "d", "e", "f",
             "A", "B", "C", "D", "E", "F"} |->
        (CHOOSE i \in 1..16 : HexDigits[i] = LowerOf(c)) - 1]

IsHexDigit(c) == c \in DOMAIN HexValues

HexValue(c) == HexValues[c]

RECURSIVE HexPrefixFrom(_, _)
\* the number of leading hex digits of s, given that the i - 1 first characters are
HexPrefixFrom(s, i) ==
    IF i > Len(s) \/ ~IsHexDigit(s[i]) THEN i - 1 ELSE HexPrefixFrom(s, i + 1)

RECURSIVE HexNumber(_, _)
\* the value of the n first characters of s, all hex digits
HexNumber(s, n) ==
    IF n = 0 THEN 0 ELSE 16 * HexNumber(s, n - 1) + HexValue(s[n])

\* parseInt(s, 16): the value of the longest prefix of hex digits, NaN if there is none
ParseInt16(s) ==
    LET n == HexPrefixFrom(s, 1)
    IN  IF n = 0 THEN NaN ELSE HexNumber(s, n)

RECURSIVE ToHex(_)
\* Number.prototype.toString(16) of an integer n >= 0: lowercase, no padding
ToHex(n) ==
    IF n < 16 THEN <<HexDigits[n + 1]>> ELSE ToHex(n \div 16) \o <<HexDigits[(n % 16) + 1]>>

RECURSIVE ToDecimal(_)
\* the decimal digits of an integer n >= 0
ToDecimal(n) ==
    IF n < 10 THEN <<HexDigits[n + 1]>> ELSE ToDecimal(n \div 10) \o <<HexDigits[(n % 10) + 1]>>

\* a number inside a template literal
NumberToString(n) == IF n = NaN THEN <<"N", "a", "N">> ELSE ToDecimal(n)

\* hexHeader & mask for the three masks of the header byte; NaN & mask is 0
BitAnd31(h) == IF h = NaN THEN 0 ELSE h % 32

BitAnd128(h) == IF h = NaN THEN 0 ELSE ((h \div 128) % 2) * 128

BitAnd96(h) == IF h = NaN THEN 0 ELSE ((h \div 32) % 4) * 32

-----------------------------------------------------------------------------
(* Characters and their UTF-16 code units.                                 *)

\* the printable ASCII characters, code units 32..126 in order (the double quote, the
\* backslash and the backquote by name)
Printable ==
    <<" ", "!", "u+34", "#", "$", "%", "&", "'", "(", ")", "*", "+", ",", "-", ".", "/",
      "0", "1", "2", "3", "4", "5", "6", "7", "8", "9", ":", ";", "<", "=", ">", "?",
      "@", "A", "B", "C", "D", "E", "F", "G", "H", "I", "J", "K", "L", "M", "N", "O",
      "P", "Q", "R", "S", "T", "U", "V", "W", "X", "Y", "Z", "[", "u+92", "]", "^", "_",
      "u+96", "a", "b", "c", "d", "e", "f", "g", "h", "i", "j", "k", "l", "m", "n", "o",
      "p", "q", "r", "s", "t", "u", "v", "w", "x", "y", "z", "{", "|", "}", "~">>

\* the code units the model's strings are made of: the bytes and one unit above 255
CodeUnits == 0..255 \cup {8364}

\* String.fromCharCode(n): the character itself when printable, else a name for it
FromCharCode(n) ==
    IF n >= 32 /\ n <= 126 THEN Printable[n - 31] ELSE "u+" \o ToString(n)

\* the code unit of every character
CharCodes == [c \in {FromCharCode(n) : n \in CodeUnits} |->
                 CHOOSE n \in CodeUnits : FromCharCode(n) = c]

\* String.prototype.charCodeAt for a one-character string
CharCode(c) == CharCodes[c]

RECURSIVE hexEncodeUnpadded(_)
RECURSIVE hexEncode(_)
\* an encoder that pads nothing
hexEncodeUnpadded(message) ==
    IF message = Empty THEN Empty
    ELSE ToHex(CharCode(Head(message))) \o hexEncodeUnpadded(Tail(message))

\* hexEncode: toString(16) of every code unit, padded to two digits when it has one; the
\* loop over the characters is unfolded by halves
hexEncode(message) ==
    IF message = Empty THEN Empty
    ELSE IF Len(message) = 1
    THEN LET encodedChar == ToHex(CharCode(message[1]))
         IN  IF Len(encodedChar) = 1 THEN <<"0">> \o encodedChar ELSE encodedChar
    ELSE LET half == Len(message) \div 2
         IN  hexEncode(SubSeq(message, 1, half)) \o hexEncode(SubSeq(message, half + 1, Len(message)))

RECURSIVE hexDecode(_)
\* hexDecode: one character per two characters of the input, for (n = 0; n < length; n += 2);
\* String.fromCharCode(NaN) is the character of code unit 0
hexDecode(message) ==
    IF message = Empty THEN Empty
    ELSE LET n == ParseInt16(Substring(message, 0, 2))
         IN  <<FromCharCode(IF n = NaN THEN 0 ELSE n)>> \o hexDecode(SubstringFrom(message, 2))

-----------------------------------------------------------------------------
(* The static tables of conectricUsbGateway.                               *)

\* MESSAGE_TYPES[messageType]: undefined for a code that is not a key
MESSAGE_TYPES(messageType) ==
    CASE messageType = <<"3", "0">> -> "tempHumidity"
      [] messageType = <<"3", "1">> -> "switch"
      [] messageType = <<"3", "2">> -> "motion"
      [] messageType = <<"3", "6">> -> "rs485Request"
      [] messageType = <<"3", "7">> -> "rs485Response"
      [] messageType = <<"3", "8">> -> "rs485ChunkRequest"
      [] messageType = <<"3", "9">> -> "rs485ChunkResponse"
      [] messageType = <<"4", "2">> -> "rs485ChunkEnvelopeResponse"
      [] messageType = <<"4", "4">> -> "moisture"
      [] messageType = <<"4", "5">> -> "tempHumidityLight"
      [] messageType = <<"4", "6">> -> "tempHumidityAdc"
      [] messageType = <<"6", "0">> -> "boot"
      [] messageType = <<"6", "1">> -> "text"
      [] messageType = <<"7", "0">> -> "rs485Config"
      [] OTHER -> None

BROADCAST_MESSAGE_TYPES ==
    {<<"3", "0">>, <<"3", "1">>, <<"3", "2">>, <<"3", "7">>, <<"3", "9">>, <<"4", "2">>,
     <<"4", "4">>, <<"4", "5">>, <<"4", "6">>, <<"6", "0">>, <<"6", "1">>}

IGNORABLE_MESSAGE_TYPES == {<<"3", "3">>, <<"3", "4">>, <<"3", "5">>}

KNOWN_COMMANDS == {<<"D", "P">>, <<"M", "R">>, <<"S", "S">>, <<"V", "E", "R">>}

isBroadcastMessageType(messageType) == messageType \in BROADCAST_MESSAGE_TYPES

\* the options runGateway switches on when the caller leaves them out
DefaultedOptions ==
    {"sendBootMessages", "sendDecodedPayload", "deDuplicateBursts", "decodeTextMessages"}

\* the boolean options of PARAM_SCHEMA
BooleanOptions ==
    {"sendAdcWithLux", "sendRawData", "sendRawLux", "sendBootMessages", "sendStatusMessages",
     "sendDecodedPayload", "sendEventCount", "useFahrenheitTemps", "useMillisecondTimestamps",
     "switchOpenValue", "deDuplicateBursts", "decodeTextMessages", "debugMode", "sendHopData"}

\* the callbacks of PARAM_SCHEMA
FunctionOptions == {"onSensorMessage", "onGatewayReady"}

\* the values a caller's object holds: the booleans and a function, by name
JsTrue == "true"

JsFalse == "false"

JsFunction == "function"

\* Joi.validate(params, PARAM_SCHEMA): onSensorMessage is required, every key is known and
\* of its type
ValidParams(p) ==
    /\ "onSensorMessage" \in DOMAIN p
    /\ DOMAIN p \subseteq BooleanOptions \cup FunctionOptions
    /\ \A k \in DOMAIN p : IF k \in FunctionOptions THEN p[k] = JsFunction
                                                   ELSE p[k] \in {JsTrue, JsFalse}

\* runGateway without its last default: decodeTextMessages stays as the caller left it
WithDefaultsButText(p) ==
    [k \in (DefaultedOptions \ {"decodeTextMessages"}) \ DOMAIN p |-> JsTrue] @@ p

\* the four hasOwnProperty checks of runGateway
WithDefaults(p) == [k \in DefaultedOptions \ DOMAIN p |-> JsTrue] @@ p

\* params.<name> used as a condition: an option the object lacks is undefined
Option(name) == name \in DOMAIN params /\ params[name] = JsTrue

-----------------------------------------------------------------------------
(* The payload decoders of parseMessage.  Temperatures and humidities are  *)
(* in hundredths and the battery in tenths, so that they stay integers.    *)

\* Math.round(num / den) for den > 0: halves go up
RoundHalfUp(num, den) == (2 * num + den) \div (2 * den)

\* calculateTemperature with the Celsius value cut off after two decimals, not rounded
calculateTemperatureFloor(tempRaw) ==
    LET t == ParseInt16(tempRaw)
        temperature == IF t = NaN THEN NaN
                       ELSE (t * 17572 - 4685 * 65536) \div 65536
    IN  IF Option("useFahrenheitTemps")
        THEN ("temperature" :> (IF t = NaN THEN NaN
                                ELSE RoundHalfUp(temperature * 9 + 16000, 5)))
             @@ ("temperatureUnit" :> "F")
        ELSE ("temperature" :> temperature) @@ ("temperatureUnit" :> "C")

\* calculateTemperature: roundTo(-46.85 + (t / 65536) * 175.72, 2), in Fahrenheit on request.
\* The sum is a double: of the four raw values whose exact sum ends in 5 thousandths
\* (2000, 6000, a000, e000) the double for 6000 lies below 19.045 and rounds to 19.04
calculateTemperature(tempRaw) ==
    LET t == ParseInt16(tempRaw)
        temperature == IF t = NaN THEN NaN
                       ELSE IF t = 24576 THEN 1904
                       ELSE RoundHalfUp(t * 17572 - 4685 * 65536, 65536)
    IN  IF Option("useFahrenheitTemps")
        THEN ("temperature" :> (IF t = NaN THEN NaN
                                ELSE RoundHalfUp(temperature * 9 + 16000, 5)))
             @@ ("temperatureUnit" :> "F")
        ELSE ("temperature" :> temperature) @@ ("temperatureUnit" :> "C")

\* calculateHumidity: roundTo(-6 + 125 * (h / 65536), 2)
calculateHumidity(humidityRaw) ==
    LET h == ParseInt16(humidityRaw)
    IN  IF h = NaN THEN NaN ELSE RoundHalfUp(h * 12500 - 600 * 65536, 65536)

\* the object {} and a decoder's answer: whether the message goes on to the callback
EmptyObject == <<>>

Deliver(type, payload) == [deliver |-> TRUE, type |-> type, payload |-> payload]

Suppress == [deliver |-> FALSE, type |-> None, payload |-> EmptyObject]

\* message.payload.eventCount, set when sendEventCount is on
EventCount(on, digits) ==
    IF on /\ Option("sendEventCount") THEN "eventCount" :> ParseInt16(digits) ELSE EmptyObject

\* case 'tempHumidity': the older layout has 8 characters, the newer an event count first
DecodeTempHumidity(messageData, battery) ==
    LET older == Len(messageData) = 8
        tempRaw == IF older THEN Substring(messageData, 0, 4) ELSE Substring(messageData, 10, 14)
        humidityRaw == IF older THEN SubstringFrom(messageData, 4) ELSE SubstringFrom(messageData, 14)
    IN  Deliver("tempHumidity",
                ("humidity" :> calculateHumidity(humidityRaw))
                @@ calculateTemperature(tempRaw)
                @@ ("battery" :> battery)
                @@ EventCount(~older, Substring(messageData, 2, 10)))

\* case 'tempHumidityAdc'
DecodeTempHumidityAdc(messageData, battery) ==
    Deliver("tempHumidityAdc",
            ("adcIn" :> SubstringFrom(messageData, 26))
            @@ ("adcMax" :> Substring(messageData, 22, 26))
            @@ ("humidity" :> calculateHumidity(Substring(messageData, 14, 18)))
            @@ calculateTemperature(Substring(messageData, 10, 14))
            @@ ("battery" :> battery)
            @@ EventCount(TRUE, Substring(messageData, 2, 10)))

\* case 'tempHumidityLight'; lux and bucketedLux are a real power of adcIn and are left out
DecodeTempHumidityLight(messageData, battery) ==
    Deliver("tempHumidityLight",
            (IF Option("sendAdcWithLux")
             THEN ("adcIn" :> SubstringFrom(messageData, 26))
                  @@ ("adcMax" :> Substring(messageData, 22, 26))
             ELSE EmptyObject)
            @@ ("humidity" :> calculateHumidity(Substring(messageData, 14, 18)))
            @@ calculateTemperature(Substring(messageData, 10, 14))
            @@ ("battery" :> battery)
            @@ EventCount(TRUE, Substring(messageData, 2, 10)))

\* case 'moisture': 21 and 22 are status reports, sent on only with sendStatusMessages
DecodeMoisture(messageData, battery) ==
    IF StartsWith(messageData, <<"2", "1">>) \/ StartsWith(messageData, <<"2", "2">>)
    THEN IF ~Option("sendStatusMessages") THEN Suppress
         ELSE Deliver("moistureStatus",
                      EventCount(TRUE, Substring(messageData, 2, 10))
                      @@ ("humidity" :> calculateHumidity(SubstringFrom(messageData, 14)))
                      @@ calculateTemperature(Substring(messageData, 10, 14))
                      @@ ("moisture" :> StartsWith(messageData, <<"2", "1">>))
                      @@ ("battery" :> battery))
    ELSE Deliver("moisture",
                 EventCount(TRUE, Substring(messageData, 2, 10))
                 @@ ("moisture" :> StartsWith(messageData, <<"8", "1">>))
                 @@ ("battery" :> battery))

\* case 'motion': 20 is a status report
DecodeMotion(messageData, battery) ==
    LET eventCount == EventCount(Len(messageData) = 10, SubstringFrom(messageData, 2))
    IN  IF StartsWith(messageData, <<"2", "0">>)
        THEN IF ~Option("sendStatusMessages") THEN Suppress
             ELSE Deliver("motionStatus", eventCount @@ ("battery" :> battery))
        ELSE Deliver("motion", eventCount @@ ("motion" :> TRUE) @@ ("battery" :> battery))

\* case 'switch': 21 and 22 are status reports; switchOpenValue picks the polarity
DecodeSwitch(messageData, battery) ==
    LET eventCount == EventCount(Len(messageData) = 10, SubstringFrom(messageData, 2))
    IN  IF StartsWith(messageData, <<"2", "1">>) \/ StartsWith(messageData, <<"2", "2">>)
        THEN IF ~Option("sendStatusMessages") THEN Suppress
             ELSE Deliver("switchStatus",
                          ("switch" :> (IF Option("switchOpenValue")
                                        THEN StartsWith(messageData, <<"2", "1">>)
                                        ELSE StartsWith(messageData, <<"2", "2">>)))
                          @@ eventCount @@ ("battery" :> battery))
        ELSE Deliver("switch",
                     ("switch" :> (IF Option("switchOpenValue")
                                   THEN StartsWith(messageData, <<"8", "1">>)
                                   ELSE StartsWith(messageData, <<"8", "2">>)))
                     @@ eventCount @@ ("battery" :> battery))

\* case 'boot': sent on only with sendBootMessages
DecodeBoot(messageData, battery) ==
    IF Option("sendBootMessages")
    THEN Deliver("boot",
                 ("resetCause" :> (CASE messageData = <<"0", "0">> -> "powerOn"
                                     [] messageData = <<"0", "1">> -> "externalReset"
                                     [] messageData = <<"0", "2">> -> "watchdogReset"
                                     [] OTHER -> "unknown"))
                 @@ ("battery" :> battery))
    ELSE Suppress

PARITY_NONE == "none"

PARITY_ODD == "odd"

\* the object has the key PARTITY_EVEN: conectricUsbGateway.PARITY_EVEN reads undefined
PARITY_EVEN == None

\* case 'rs485Config': exactly 7 characters of message data, or the message is dropped
DecodeRs485Config(messageData) ==
    IF Len(messageData) # 7 THEN Suppress
    ELSE LET baudRate == Substring(messageData, 0, 2)
             parity == Substring(messageData, 2, 4)
             stopBits == Substring(messageData, 4, 6)
             bitMask == SubstringFrom(messageData, 6)
         IN  Deliver("rs485Config",
                     ("baudRate" :> (CASE baudRate = <<"0", "0">> -> "2400"
                                       [] baudRate = <<"0", "1">> -> "4800"
                                       [] baudRate = <<"0", "2">> -> "9600"
                                       [] baudRate = <<"0", "3">> -> "19200"
                                       [] OTHER -> "?"))
                     @@ ("parity" :> (CASE parity = <<"0", "0">> -> PARITY_NONE
                                        [] parity = <<"0", "1">> -> PARITY_ODD
                                        [] parity = <<"0", "2">> -> PARITY_EVEN
                                        [] OTHER -> "?"))
                     @@ ("stopBits" :> (CASE stopBits = <<"0", "0">> -> 1
                                          [] stopBits = <<"0", "1">> -> 2
                                          [] OTHER -> -1))
                     @@ ("bitMask" :> (CASE bitMask = <<"0", "0">> -> 8
                                         [] bitMask = <<"0", "1">> -> 7
                                         [] OTHER -> -1)))

\* the remaining cases: the RS-485 pass-through types and text
DecodeOther(messageTypeString, messageData, battery) ==
    CASE messageTypeString = "rs485Request" ->
           Deliver(messageTypeString, "data" :> messageData)
      [] messageTypeString = "rs485Response" ->
           Deliver(messageTypeString, ("rs485" :> messageData) @@ ("battery" :> battery))
      [] messageTypeString = "rs485ChunkEnvelopeResponse" ->
           Deliver(messageTypeString,
                   ("chunkSize" :> ParseInt16(SubstringFrom(messageData, 2)))
                   @@ ("numChunks" :> ParseInt16(Substring(messageData, 0, 2)))
                   @@ ("battery" :> battery))
      [] messageTypeString = "rs485ChunkResponse" ->
           Deliver(messageTypeString, ("data" :> messageData) @@ ("battery" :> battery))
      [] messageTypeString = "text" ->
           Deliver(messageTypeString,
                   ("text" :> (IF Option("decodeTextMessages")
                               THEN hexDecode(messageData) ELSE messageData))
                   @@ ("battery" :> battery))
      [] OTHER -> Deliver(messageTypeString, EmptyObject)

\* switch (messageTypeString)
DecodePayload(messageTypeString, messageData, battery) ==
    CASE messageTypeString = "tempHumidity" -> DecodeTempHumidity(messageData, battery)
      [] messageTypeString = "tempHumidityAdc" -> DecodeTempHumidityAdc(messageData, battery)
      [] messageTypeString = "tempHumidityLight" -> DecodeTempHumidityLight(messageData, battery)
      [] messageTypeString = "moisture" -> DecodeMoisture(messageData, battery)
      [] messageTypeString = "motion" -> DecodeMotion(messageData, battery)
      [] messageTypeString = "switch" -> DecodeSwitch(messageData, battery)
      [] messageTypeString = "boot" -> DecodeBoot(messageData, battery)
      [] messageTypeString = "rs485Config" -> DecodeRs485Config(messageData)
      [] OTHER -> DecodeOther(messageTypeString, messageData, battery)

-----------------------------------------------------------------------------
(* parseMessage.                                                           *)

\* how a call of parseMessage ends: the callback ran, it returned early, or it threw
Callback(message, newCache) == [kind |-> "callback", message |-> message, cache |-> newCache]

\* an early return that renews every entry of the cache, as a get that extends the ttl
ReturnExtending(newCache) ==
    [kind |-> "return", message |-> EmptyObject, cache |-> [k \in DOMAIN newCache |-> 0]]

Return(newCache) == [kind |-> "return", message |-> EmptyObject, cache |-> newCache]

Throw(newCache) == [kind |-> "throw", message |-> EmptyObject, cache |-> newCache]

\* the cache key of a frame: the three parts put side by side in a template literal
cacheKey(sourceAddr, sequenceNumber, messageData) ==
    sourceAddr \o NumberToString(sequenceNumber) \o messageData

\* the ignorable branch: its debug line names fullMesage, which nothing declares, so
\* evaluating it throws a ReferenceError
IgnorableBranch == IF Option("debugMode") THEN Throw(cache) ELSE Return(cache)

\* parseMessage, from the message type on: the fields, the cache check, the message
\* object (its timestamp, a clock reading, is left out) and the callback
ParseTyped(fullMessage, data, headerLength, messageType, messageTypeString) ==
    LET sourceAddr == Substring(data, 8, 12)
        sequenceNumber == ParseInt16(Substring(data, 2, 4))
        battery == ParseInt16(Substring(data, 4 + headerLength * 2, 6 + headerLength * 2))
        messageData == SubstringFrom(data, 6 + headerLength * 2)
        key == cacheKey(sourceAddr, sequenceNumber, messageData)
        seen == Option("deDuplicateBursts") /\ key \in DOMAIN cache
        newCache == IF Option("deDuplicateBursts") /\ ~seen THEN (key :> 0) @@ cache ELSE cache
        hops == IF isBroadcastMessageType(messageType) /\ Option("sendHopData")
                THEN ("numHops" :> ParseInt16(Substring(data, 4, 6)))
                     @@ ("maxHops" :> ParseInt16(Substring(data, 6, 8)))
                ELSE EmptyObject
        rawData == IF Option("sendRawData") THEN "rawData" :> fullMessage ELSE EmptyObject
        message == ("type" :> messageTypeString) @@ ("sensorId" :> sourceAddr)
                   @@ ("sequenceNumber" :> sequenceNumber) @@ hops @@ rawData
        decoded == DecodePayload(messageTypeString, messageData, battery)
    IN  IF seen THEN Return(cache)
        ELSE IF ~Option("sendDecodedPayload") THEN Callback(message, newCache)
        ELSE IF ~decoded.deliver THEN Return(newCache)
        ELSE Callback(("type" :> decoded.type) @@ ("payload" :> decoded.payload) @@ message,
                      newCache)

\* if (headerType !== 0): the extended header is not supported
ExtendedHeader(headerType) == headerType # 0

\* a payload check that turns away only the payload type 0
UnsupportedPayloadOnlyZero(payloadType) == payloadType = 0

\* if (payloadType !== 32): only the simple payload is supported
UnsupportedPayload(payloadType) == payloadType # 32

\* a type lookup at the place the type has under a header of length 6
messageTypeAtFixedOffset(data, headerLength) == Substring(data, 14, 16)

\* data.substring(2 + (headerLength * 2), 4 + (headerLength * 2))
messageTypeAt(data, headerLength) ==
    Substring(data, 2 + headerLength * 2, 4 + headerLength * 2)

\* parseMessage(data): the CRC is cut off, then the header checks and the type lookup
parseMessage(fullMessage) ==
    LET data == Substring(fullMessage, 0, Len(fullMessage) - 4)
        hexHeader == ParseInt16(Substring(data, 0, 2))
        headerLength == BitAnd31(hexHeader)
        headerType == BitAnd128(hexHeader)
        payloadType == BitAnd96(hexHeader)
        messageType == messageTypeAt(data, headerLength)
        messageTypeString == MESSAGE_TYPES(messageType)
    IN  IF ExtendedHeader(headerType) THEN Return(cache)
        ELSE IF UnsupportedPayload(payloadType) THEN Return(cache)
        ELSE IF messageType \in IGNORABLE_MESSAGE_TYPES THEN IgnorableBranch
        ELSE IF messageTypeString = None THEN Return(cache)
        ELSE ParseTyped(fullMessage, data, headerLength, messageType, messageTypeString)

-----------------------------------------------------------------------------
(* The handler of the parser's 'data' event.                               *)

\* what `out` holds after a handler that made no callback
Did(kind) == [kind |-> kind, message |-> EmptyObject]

\* a '>' record with the identity known goes to parseMessage; an exception it throws
\* is caught by nobody and ends the process
FrameRecord(data) ==
    LET r == parseMessage(SubstringFrom(data, 1))
    IN  /\ cache' = r.cache
        /\ out' = [kind |-> r.kind, message |-> r.message]
        /\ crashed' = (r.kind = "throw")
        /\ UNCHANGED <<macAddress, contikiVersion, conectricVersion>>

\* the other branches of the handler: the replies of the bring-up commands
ReplyRecord(data) ==
    /\ IF StartsWith(data, <<"M", "R", ":">>)
       THEN /\ macAddress' = SubstringFrom(data, 3)
            /\ out' = Did("macAddress")
            /\ UNCHANGED <<contikiVersion, conectricVersion>>
       ELSE IF data = <<"D", "P", ":", "O", "k">>
       THEN /\ out' = Did("dumpPayload")
            /\ UNCHANGED <<macAddress, contikiVersion, conectricVersion>>
       ELSE IF data = <<"S", "S", ":", "O", "k">>
       THEN /\ out' = Did(IF "onGatewayReady" \in DOMAIN params THEN "onGatewayReady" ELSE "sink")
            /\ UNCHANGED <<macAddress, contikiVersion, conectricVersion>>
       ELSE IF StartsWith(ToLowerCase(data), <<"v", "e", "r", ":", "c", "o", "n", "t", "i", "k", "i">>)
       THEN /\ contikiVersion' = SubstringFrom(data, 12)
            /\ out' = Did("contikiVersion")
            /\ UNCHANGED <<macAddress, conectricVersion>>
       ELSE IF StartsWith(ToLowerCase(data),
                          <<"v", "e", "r", ":", "c", "o", "n", "e", "c", "t", "r", "i", "c", "-", "v">>)
       THEN /\ conectricVersion' = SubstringFrom(data, 15)
            /\ out' = Did("conectricVersion")
            /\ UNCHANGED <<macAddress, contikiVersion>>
       ELSE /\ out' = Did(IF data \in KNOWN_COMMANDS THEN "known" ELSE "unprocessed")
            /\ UNCHANGED <<macAddress, contikiVersion, conectricVersion>>
    /\ UNCHANGED <<cache, crashed>>

\* a gate that does not ask for the MAC address
GateOpenWithoutMac == Truthy(conectricVersion) /\ Truthy(contikiVersion)

\* whether the handler hands a record to parseMessage
GateOpen == Truthy(conectricVersion) /\ Truthy(contikiVersion) /\ Truthy(macAddress)

\* parser.on('data'): one record, handled to its end
ParserData(data) ==
    /\ ~crashed
    /\ serialPort = "open"
    /\ parser # None
    /\ rec' = data
    /\ IF StartsWith(data, <<">">>) /\ GateOpen THEN FrameRecord(data) ELSE ReplyRecord(data)
    /\ UNCHANGED <<params, serialPort, parser, device, pendingStarts, sweepPhase, written>>

-----------------------------------------------------------------------------
(* The de-duplication cache's clock: cache.init({ttl: 30, interval: 3}).    *)

\* ttl: the seconds an entry is kept for
TTL == 30

\* interval: the seconds between two sweeps of the expired entries
INTERVAL == 3

\* a sweep that takes the interval for the ttl
CleanExpiredEarly(c) == [k \in {x \in DOMAIN c : c[x] < INTERVAL} |-> c[k]]

\* a sweep that deletes nothing
CleanExpiredNever(c) == c

\* the sweep: every entry whose ttl has run out is deleted
CleanExpired(c) == [k \in {x \in DOMAIN c : c[x] < TTL} |-> c[k]]

\* every entry one second older
Older(c) == [k \in DOMAIN c |-> c[k] + 1]

\* one second passes; the sweep runs when its interval is over
Tick ==
    /\ ~crashed
    /\ params # NoObject
    /\ Option("deDuplicateBursts")
    /\ IF sweepPhase + 1 = INTERVAL
       THEN cache' = CleanExpired(Older(cache)) /\ sweepPhase' = 0
       ELSE cache' = Older(cache) /\ sweepPhase' = sweepPhase + 1
    /\ out' = Did("tick")
    /\ UNCHANGED <<params, macAddress, contikiVersion, conectricVersion, serialPort, parser,
                   device, pendingStarts, rec, written, crashed>>

-----------------------------------------------------------------------------
(* runGateway, the USB events and startGateway.                            *)

\* the startGateway calls that may be waiting at once
MaxPendingStarts == 2

\* runGateway(p): an invalid object ends the call; a valid one gets its defaults, the
\* cache is set up, the USB handlers are registered and startGateway is called
runGateway(p) ==
    /\ ~crashed
    /\ params = NoObject
    /\ rec' = p
    /\ IF ValidParams(p)
       THEN /\ params' = WithDefaults(p)
            /\ pendingStarts' = pendingStarts + 1
            /\ out' = Did("runGateway")
       ELSE /\ out' = Did("invalid")
            /\ UNCHANGED <<params, pendingStarts>>
    /\ UNCHANGED <<macAddress, contikiVersion, conectricVersion, serialPort, parser, device,
                   cache, sweepPhase, written, crashed>>

\* usb.on('attach'): the router is plugged in; startGateway is scheduled
UsbAttach ==
    /\ ~crashed
    /\ ~device
    /\ device' = TRUE
    /\ IF params # NoObject
       THEN pendingStarts < MaxPendingStarts /\ pendingStarts' = pendingStarts + 1
       ELSE UNCHANGED pendingStarts
    /\ out' = Did("attach")
    /\ UNCHANGED <<params, macAddress, contikiVersion, conectricVersion, serialPort, parser,
                   cache, sweepPhase, rec, written, crashed>>

\* usb.on('detach'): the router is unplugged, its port closes; startGateway is scheduled
UsbDetach ==
    /\ ~crashed
    /\ device
    /\ device' = FALSE
    /\ serialPort' = IF serialPort = "open" THEN "closed" ELSE serialPort
    /\ IF params # NoObject
       THEN pendingStarts < MaxPendingStarts /\ pendingStarts' = pendingStarts + 1
       ELSE UNCHANGED pendingStarts
    /\ out' = Did("detach")
    /\ UNCHANGED <<params, macAddress, contikiVersion, conectricVersion, parser,
                   cache, sweepPhase, rec, written, crashed>>

\* startGateway: with the router found, a port and a parser are made; without it the
\* identity, the parser and the port are forgotten
startGateway ==
    /\ ~crashed
    /\ pendingStarts > 0
    /\ pendingStarts' = pendingStarts - 1
    /\ IF device
       THEN /\ serialPort' = "open"
            /\ parser' = "parser"
            /\ out' = Did("started")
            /\ UNCHANGED <<macAddress, contikiVersion, conectricVersion>>
       ELSE /\ macAddress' = Undefined
            /\ parser' = None
            /\ serialPort' = None
            /\ conectricVersion' = Undefined
            /\ contikiVersion' = Undefined
            /\ out' = Did("waiting")
    /\ UNCHANGED <<params, device, cache, sweepPhase, rec, written, crashed>>

-----------------------------------------------------------------------------
(* Records of the serial line.                                             *)

\* a frame as the router dumps it: '>', the header byte, the sequence number, the hop
\* counts, the source address, the payload length, the type, the battery, the message
\* data and four characters of CRC
MakeFrame(header, sequence, type, messageData) ==
    <<">">> \o header \o sequence \o <<"0", "1", "0", "5">> \o <<"1", "2", "3", "4">>
    \o <<"0", "3">> \o type \o <<"1", "e">> \o messageData \o <<"a", "b", "c", "d">>

\* the header byte of a record and its three fields, read as parseMessage reads them
HeaderOf(record) == ParseInt16(Substring(record, 1, 3))

\* the message type of a frame: two characters at 2 + headerLength * 2 of the frame
TypeOf(record) ==
    LET data == Substring(SubstringFrom(record, 1), 0, Len(record) - 5)
    IN  Substring(data, 2 + BitAnd31(HeaderOf(record)) * 2, 4 + BitAnd31(HeaderOf(record)) * 2)

\* the message data of a frame: what follows the battery byte, without the CRC
MessageDataOf(record) ==
    LET data == Substring(SubstringFrom(record, 1), 0, Len(record) - 5)
    IN  SubstringFrom(data, 6 + BitAnd31(HeaderOf(record)) * 2)

\* 0x26: a standard header of length 6 with the simple payload
StandardHeader == <<"2", "6">>

\* header bytes with the extended-header bit, with another payload type, or no hex at all
UnsupportedHeaders ==
    {<<"a", "6">>, <<"0", "6">>, <<"4", "6">>, <<"6", "6">>, <<"z", "z">>}

Sequence01 == <<"0", "1">>

EventData == <<"8", "1">>

\* the first byte of the message data of status reports and of events
MarkerData == {<<"2", "0">>, <<"2", "1">>, <<"2", "2">>, EventData}

\* the reset causes of a boot message, and one that is none of them
BootData == {<<"0", "0">>, <<"0", "1">>, <<"0", "2">>, EventData}

\* eight characters: two 16-bit readings, or four bytes of an RS-485 configuration
SensorData == <<"0", "0", "0", "1", "0", "0", "0", "1">>

\* message data of 7 characters, as the rs485Config case wants it, and of 8
Rs485ConfigData ==
    {<<"0", "0", "0", "1", "0", "0", "0">>, <<"0", "3", "0", "2", "0", "1", "0">>, SensorData}

\* the frames the decoding is checked on: every registered type, status reports, boot
\* causes, unsupported headers, ignorable and unknown types, and header length 0, where
\* the type is read from the sequence number's place
ParseFrames ==
    {MakeFrame(StandardHeader, Sequence01, t, d) :
        t \in {<<"3", "1">>, <<"3", "2">>, <<"4", "4">>}, d \in MarkerData}
    \cup {MakeFrame(StandardHeader, Sequence01, <<"6", "0">>, d) : d \in BootData}
    \cup {MakeFrame(StandardHeader, Sequence01, <<"7", "0">>, d) : d \in Rs485ConfigData}
    \cup {MakeFrame(StandardHeader, Sequence01, t, SensorData) :
            t \in {<<"3", "0">>, <<"3", "6">>, <<"3", "7">>, <<"3", "8">>, <<"3", "9">>,
                   <<"4", "2">>, <<"4", "5">>, <<"4", "6">>, <<"6", "1">>}}
    \cup {MakeFrame(h, Sequence01, <<"3", "1">>, EventData) : h \in UnsupportedHeaders}
    \cup {MakeFrame(StandardHeader, Sequence01, t, EventData) :
            t \in {<<"3", "3">>, <<"3", "4">>, <<"3", "5">>, <<"9", "9">>}}
    \cup {MakeFrame(<<"2", "0">>, q, <<"3", "1">>, EventData) :
            q \in {<<"3", "1">>, <<"3", "3">>}}

\* the option objects the decoding is checked under: onSensorMessage and any of these
\* options set against its default
ToggledOptions ==
    [debugMode |-> JsTrue, sendStatusMessages |-> JsTrue, deDuplicateBursts |-> JsFalse,
     sendBootMessages |-> JsFalse, sendDecodedPayload |-> JsFalse]

ParseCallers ==
    {[k \in on |-> ToggledOptions[k]] @@ ("onSensorMessage" :> JsFunction) :
        on \in SUBSET DOMAIN ToggledOptions}

\* the entries the cache may hold at once
MaxCache == 1

-----------------------------------------------------------------------------
(* SpecParse: the gateway is up (runGateway done, the router found, its MAC *)
(* address and versions received) and frames arrive.                       *)

\* the state after the bring-up, under the options of caller object p
Ready(p) ==
    /\ params = WithDefaults(p)
    /\ macAddress = <<"1", "2", "3", "4">>
    /\ contikiVersion = <<"3", ".", "x">>
    /\ conectricVersion = <<"1", ".", "0">>
    /\ serialPort = "open"
    /\ parser = "parser"
    /\ device = TRUE
    /\ pendingStarts = 0
    /\ cache = EmptyObject
    /\ sweepPhase = 0
    /\ rec = Empty
    /\ out = Did("conectricVersion")
    /\ written = <<>>
    /\ sendParams = NoObject
    /\ crashed = FALSE
    /\ delivered = EmptyObject
    /\ handshakes = EmptyObject
    /\ lastSent = EmptyObject
    /\ got = {}

ParseInit == \E p \in ParseCallers : Ready(p)

ParseNext ==
    \E f \in ParseFrames :
        /\ ParserData(f)
        /\ Cardinality(DOMAIN cache') <= MaxCache
        /\ UNCHANGED <<delivered, sendParams, handshakes, lastSent, got>>

SpecParse == ParseInit /\ [][ParseNext]_vars

-----------------------------------------------------------------------------
(* Spec: the gateway from its construction on: runGateway, the router      *)
(* plugged in and out, the records of the serial line, and the clock.      *)

\* a switch event, and a frame of the ignorable type 33
SwitchEvent == MakeFrame(StandardHeader, Sequence01, <<"3", "1">>, EventData)

IgnorableFrame == MakeFrame(StandardHeader, Sequence01, <<"3", "3">>, EventData)

\* the records the router sends: the replies of the bring-up commands, among them an
\* MR: and a ver:contiki with nothing behind, a command echo, and frames
GatewayRecords ==
    {<<"M", "R", ":", "1", "2", "3", "4">>,
     <<"M", "R", ":">>,
     <<"D", "P", ":", "O", "k">>,
     <<"S", "S", ":", "O", "k">>,
     <<"V", "e", "r", ":", "C", "o", "n", "t", "i", "k", "i", "-", "3", ".", "x">>,
     <<"v", "e", "r", ":", "c", "o", "n", "t", "i", "k", "i">>,
     <<"v", "e", "r", ":", "c", "o", "n", "e", "c", "t", "r", "i", "c", "-", "v", "1", ".", "0">>,
     <<"D", "P">>,
     SwitchEvent,
     IgnorableFrame}

\* the objects runGateway is called with: the callback alone, with debugMode, without
\* de-duplication, with onGatewayReady, without the callback, with a callback that is no
\* function, and with an unknown option
GatewayCallers ==
    {"onSensorMessage" :> JsFunction,
     ("onSensorMessage" :> JsFunction) @@ ("debugMode" :> JsTrue),
     ("onSensorMessage" :> JsFunction) @@ ("deDuplicateBursts" :> JsFalse),
     ("onSensorMessage" :> JsFunction) @@ ("onGatewayReady" :> JsFunction),
     "debugMode" :> JsTrue,
     "onSensorMessage" :> JsTrue,
     ("onSensorMessage" :> JsFunction) @@ ("verbose" :> JsTrue)}

\* the state after construction: nothing is known, the router plugged in or not
Init ==
    /\ params = NoObject
    /\ macAddress = Undefined
    /\ contikiVersion = Undefined
    /\ conectricVersion = Undefined
    /\ serialPort = None
    /\ parser = None
    /\ device \in BOOLEAN
    /\ pendingStarts = 0
    /\ cache = EmptyObject
    /\ sweepPhase = 0
    /\ rec = Empty
    /\ out = Did("constructed")
    /\ written = <<>>
    /\ sendParams = NoObject
    /\ crashed = FALSE
    /\ delivered = EmptyObject
    /\ handshakes = EmptyObject
    /\ lastSent = EmptyObject
    /\ got = {}

Next ==
    \/ \E p \in GatewayCallers : runGateway(p) /\ UNCHANGED <<delivered, sendParams, handshakes, lastSent, got>>
    \/ UsbAttach /\ UNCHANGED <<delivered, sendParams, handshakes, lastSent, got>>
    \/ UsbDetach /\ UNCHANGED <<delivered, sendParams, handshakes, lastSent, got>>
    \/ startGateway /\ UNCHANGED <<delivered, sendParams, handshakes, lastSent, got>>
    \/ \E data \in GatewayRecords : ParserData(data) /\ UNCHANGED <<delivered, sendParams, handshakes, lastSent, got>>
    \/ Tick /\ UNCHANGED <<delivered, sendParams, handshakes, lastSent, got>>

Spec == Init /\ [][Next]_vars

-----------------------------------------------------------------------------
(* SpecBringUp: the bring-up with its timers.  startGateway, with the      *)
(* router found, starts a chain of nested timers that write DP, VER, MR    *)
(* and SS to conectricUsbGateway.serialPort, whatever that is when a timer *)
(* fires; nothing cancels a chain.  The observer `got` keeps the replies   *)
(* received since the router was last lost, `lastSent` the command each    *)
(* chain wrote last.                                                       *)

\* the chains of timers that may wait at once
MaxHandshakes == 2

\* a chain that goes from DP to MR
NextCommandSkipsVer(command) ==
    CASE command = "DP" -> "MR"
      [] command = "VER" -> "MR"
      [] command = "MR" -> "SS"
      [] OTHER -> None

\* the command the timer set in the callback of `command` writes: the nesting of the
\* setTimeout calls
NextCommand(command) ==
    CASE command = "DP" -> "VER"
      [] command = "VER" -> "MR"
      [] command = "MR" -> "SS"
      [] OTHER -> None

\* the writes of a callback (line breaks left out): VER goes out as V, E and R
HandshakeWrites(command) ==
    IF command = "VER" THEN <<"V", "E", "R">> ELSE <<command>>

\* the first setTimeout of startGateway, reached with the router found: a new chain
\* waits to write DP
StartHandshake ==
    IF device
    THEN \E id \in 1..MaxHandshakes :
            /\ id \notin DOMAIN handshakes
            /\ \A j \in 1..(id - 1) : j \in DOMAIN handshakes
            /\ handshakes' = (id :> "DP") @@ handshakes
            /\ lastSent' = [j \in DOMAIN lastSent \ {id} |-> lastSent[j]]
    ELSE UNCHANGED <<handshakes, lastSent>>

\* a timer of chain id fires: its callback writes to conectricUsbGateway.serialPort
\* and sets the next timer.  With serialPort undefined the write is a TypeError that
\* nothing catches; a write to a closed port is queued or is an error without a
\* listener, as the serialport library has it (closedPortFails)
HandshakeTimer(id, closedPortFails) ==
    /\ ~crashed
    /\ id \in DOMAIN handshakes
    /\ LET command == handshakes[id]
           throws == serialPort = None \/ (serialPort = "closed" /\ closedPortFails)
       IN  /\ handshakes' = IF throws \/ NextCommand(command) = None
                            THEN [j \in DOMAIN handshakes \ {id} |-> handshakes[j]]
                            ELSE [handshakes EXCEPT ![id] = NextCommand(command)]
           /\ IF throws
              THEN /\ out' = [kind |-> "TypeError", message |-> Empty]
                   /\ crashed' = TRUE
                   /\ UNCHANGED lastSent
              ELSE /\ out' = [kind |-> "handshake", message |-> HandshakeWrites(command),
                              chain |-> id, port |-> serialPort]
                   /\ lastSent' = (id :> command) @@ lastSent
                   /\ UNCHANGED crashed
    /\ UNCHANGED <<params, macAddress, contikiVersion, conectricVersion, serialPort, parser,
                   device, pendingStarts, cache, sweepPhase, rec, written, sendParams,
                   delivered, got>>

\* the frame of the end-to-end example: >300030ff00001234000029xxxxCRCC
Frame30 ==
    <<">", "3", "0", "0", "0", "3", "0", "f", "f", "0", "0", "0", "0", "1", "2", "3", "4",
      "0", "0", "0", "0", "2", "9", "x", "x", "x", "x", "C", "R", "C", "C">>

\* the records of the bring-up: the replies, a second MAC address, and frames
BringUpRecords ==
    {<<"M", "R", ":", "1", "2", "3", "4">>,
     <<"M", "R", ":", "5", "6", "7", "8">>,
     <<"v", "e", "r", ":", "c", "o", "n", "t", "i", "k", "i", "1", ".", "0">>,
     <<"v", "e", "r", ":", "c", "o", "n", "e", "c", "t", "r", "i", "c", "-", "v", "2", ".", "0">>,
     <<"D", "P", ":", "O", "k">>,
     <<"S", "S", ":", "O", "k">>,
     Frame30,
     SwitchEvent}

\* the caller of the bring-up: both callbacks, no de-duplication
BringUpCaller ==
    ("onSensorMessage" :> JsFunction) @@ ("onGatewayReady" :> JsFunction)
    @@ ("deDuplicateBursts" :> JsFalse)

\* the reply a handler's outcome stands for
ReplyOf(kind) ==
    CASE kind = "macAddress" -> {"MR"}
      [] kind = "contikiVersion" -> {"contiki"}
      [] kind = "conectricVersion" -> {"conectric"}
      [] kind = "dumpPayload" -> {"DP:Ok"}
      [] kind \in {"onGatewayReady", "sink"} -> {"SS:Ok"}
      [] OTHER -> {}

BringUpNext ==
    \/ runGateway(BringUpCaller) /\ UNCHANGED <<delivered, sendParams, handshakes, lastSent, got>>
    \/ UsbAttach /\ UNCHANGED <<delivered, sendParams, handshakes, lastSent, got>>
    \/ UsbDetach /\ got' = {} /\ UNCHANGED <<delivered, sendParams, handshakes, lastSent>>
    \/ startGateway /\ StartHandshake /\ UNCHANGED <<delivered, sendParams, got>>
    \/ \E id \in 1..MaxHandshakes, closedPortFails \in BOOLEAN : HandshakeTimer(id, closedPortFails)
    \/ \E data \in BringUpRecords :
          /\ ParserData(data)
          /\ got' = got \cup ReplyOf(out'.kind)
          /\ UNCHANGED <<delivered, sendParams, handshakes, lastSent>>

SpecBringUp == Init /\ [][BringUpNext]_vars

-----------------------------------------------------------------------------
(* SpecDedup: the gateway is up, frames arrive and time passes.  The       *)
(* observer `delivered` keeps, for every frame onSensorMessage ran for,    *)
(* the seconds since; it stops counting at TTL + INTERVAL.                 *)

SwitchEvent02 == MakeFrame(StandardHeader, <<"0", "2">>, <<"3", "1">>, EventData)

DedupFrames == {SwitchEvent, SwitchEvent02}

DedupCallers ==
    {"onSensorMessage" :> JsFunction,
     ("onSensorMessage" :> JsFunction) @@ ("deDuplicateBursts" :> JsFalse)}

\* the cache key parseMessage makes of a frame
KeyOf(record) ==
    LET data == Substring(SubstringFrom(record, 1), 0, Len(record) - 5)
    IN  cacheKey(Substring(data, 8, 12), ParseInt16(Substring(data, 2, 4)), MessageDataOf(record))

DedupInit == \E p \in DedupCallers : Ready(p)

DedupNext ==
    \/ \E f \in DedupFrames :
          /\ ParserData(f)
          /\ UNCHANGED <<sendParams, handshakes, lastSent, got>>
          /\ delivered' = IF out'.kind = "callback" THEN (f :> 0) @@ delivered ELSE delivered
    \/ /\ Tick
       /\ UNCHANGED <<sendParams, handshakes, lastSent, got>>
       /\ delivered' = [f \in DOMAIN delivered |-> Min(delivered[f] + 1, TTL + INTERVAL)]

SpecDedup == DedupInit /\ [][DedupNext]_vars

\* the step handled a frame: parseMessage was called
ParsedFrame == out'.kind \in {"callback", "return", "throw"}

\* C2: with deDuplicateBursts on, a frame that arrives again within the 30 seconds after
\* onSensorMessage ran for it is dropped, and a frame onSensorMessage never ran for is
\* delivered: within the window the callback runs once for the same bytes
C2_OncePerWindow ==
    [][(ParsedFrame /\ Option("deDuplicateBursts")) =>
          IF rec' \in DOMAIN delivered
          THEN delivered[rec'] < TTL => (out'.kind = "return" /\ delivered' = delivered)
          ELSE out'.kind = "callback"]_vars

\* a repeat was dropped 29 seconds after the frame was delivered
C2_Witness ==
    /\ Option("deDuplicateBursts")
    /\ out.kind = "return"
    /\ rec \in DOMAIN delivered
    /\ delivered[rec] = TTL - 1

\* C3: with deDuplicateBursts on, once the 30 seconds of a key are over and the sweep,
\* which runs every 3 seconds, has passed, a frame with the same bytes is new again:
\* onSensorMessage runs for it and its key is put in the cache afresh
C3_NewAfterExpiry ==
    [][(ParsedFrame /\ Option("deDuplicateBursts")
        /\ rec' \in DOMAIN delivered /\ delivered[rec'] >= TTL + INTERVAL) =>
          /\ out'.kind = "callback"
          /\ KeyOf(rec') \in DOMAIN cache'
          /\ cache'[KeyOf(rec')] = 0
          /\ delivered'[rec'] = 0]_vars

\* a frame was delivered a second time, and the other frame's window is over as well
C3_Witness ==
    /\ Option("deDuplicateBursts")
    /\ out.kind = "callback"
    /\ delivered[rec] = 0
    /\ cache[KeyOf(rec)] = 0
    /\ \E f \in DOMAIN delivered : delivered[f] = TTL + INTERVAL

-----------------------------------------------------------------------------
(* The outbound builders.  A parameter object is a function from its      *)
(* keys; the builders add to the object they are handed.                   *)

\* max(250): the longest message the schemas let pass
MaxMessage == 250

\* Joi.string().length(4).required() for the key destination
DestinationValid(p) == "destination" \in DOMAIN p /\ Len(p["destination"]) = 4

\* Joi.string().min(1).max(250).required() for the key message
MessageValid(p) ==
    "message" \in DOMAIN p /\ Len(p["message"]) >= 1 /\ Len(p["message"]) <= MaxMessage

\* a text schema that lets any destination pass
TEXT_MESSAGE_SCHEMA_AnyDestination(p) ==
    /\ p # NoObject
    /\ DOMAIN p \subseteq {"message", "destination"}
    /\ MessageValid(p)

TEXT_MESSAGE_SCHEMA(p) ==
    /\ p # NoObject
    /\ DOMAIN p \subseteq {"message", "destination"}
    /\ MessageValid(p)
    /\ DestinationValid(p)

RS485_MESSAGE_SCHEMA(p) ==
    /\ p # NoObject
    /\ DOMAIN p \subseteq {"message", "destination", "hexEncodePayload"}
    /\ MessageValid(p)
    /\ DestinationValid(p)
    /\ "hexEncodePayload" \in DOMAIN p => p["hexEncodePayload"] \in {JsTrue, JsFalse}

RS485_CHUNKED_MESSAGE_SCHEMA(p) ==
    /\ p # NoObject
    /\ DOMAIN p \subseteq {"chunkNumber", "chunkSize", "destination"}
    /\ "chunkNumber" \in DOMAIN p /\ p["chunkNumber"] >= 0
    /\ "chunkSize" \in DOMAIN p /\ p["chunkSize"] >= 1
    /\ DestinationValid(p)

RS485_CONFIG_MESSAGE_SCHEMA(p) ==
    /\ p # NoObject
    /\ DOMAIN p \subseteq {"baudRate", "parity", "stopBits", "bitMask", "destination"}
    /\ "baudRate" \in DOMAIN p => p["baudRate"] \in {2400, 4800, 9600, 19200}
    /\ "parity" \in DOMAIN p => p["parity"] \in {"none", "odd", "even"}
    /\ "stopBits" \in DOMAIN p => p["stopBits"] \in {1, 2}
    /\ "bitMask" \in DOMAIN p => p["bitMask"] \in {7, 8}
    /\ DestinationValid(p)

LED_CONFIG_MESSAGE_SCHEMA(p) ==
    /\ p # NoObject
    /\ DOMAIN p \subseteq {"destination", "sensorType", "leds", "deploymentLifetime"}
    /\ DestinationValid(p)
    /\ "sensorType" \in DOMAIN p
    /\ p["sensorType"] \in {"moisture", "motion", "switch", "tempHumidity", "tempHumidityLight"}
    /\ "leds" \in DOMAIN p
    /\ DOMAIN p["leds"] = {"tx", "rx", "activity"}
    /\ \A k \in DOMAIN p["leds"] : p["leds"][k] \in {JsTrue, JsFalse}
    /\ "deploymentLifetime" \in DOMAIN p /\ p["deploymentLifetime"] >= 0

TX_LED_DEFAULT_COLOR == <<"0", "2">>

RX_LED_DEFAULT_COLOR == <<"0", "1">>

ACTIVITY_LED_DEFAULT_COLOR == <<"0", "4">>

\* toString(16) of a length counted in halves: a whole number as ToHex, a number and
\* a half with .8 behind
HalvesToHex(halves) ==
    IF halves % 2 = 0 THEN ToHex(halves \div 2) ELSE ToHex(halves \div 2) \o <<".", "8">>

\* if (hex.length === 1) { hex = '0' + hex }
PadHex(hex) == IF Len(hex) = 1 THEN <<"0">> \o hex ELSE hex

\* a key of the parameter object set to a value
With(p, key, value) == (key :> value) @@ p

\* return false after a failed validation: nothing is written, the object is as it was
Reject(name, p) ==
    /\ rec' = [builder |-> name, params |-> p]
    /\ out' = [kind |-> "false", message |-> Empty]
    /\ sendParams' = p
    /\ UNCHANGED <<written, crashed>>

\* the end of a builder: the debug line reads conectricUsbGateway.params and the write
\* reads conectricUsbGateway.serialPort, and either, undefined, makes a TypeError; else
\* the line goes to serialPort.write and the builder returns true
Write(name, p, left, outboundMessage) ==
    /\ rec' = [builder |-> name, params |-> p]
    /\ sendParams' = left
    /\ IF params = NoObject \/ serialPort = None
       THEN /\ out' = [kind |-> "throw", message |-> Empty]
            /\ crashed' = TRUE
            /\ UNCHANGED written
       ELSE /\ out' = [kind |-> "true", message |-> outboundMessage]
            /\ written' = outboundMessage
            /\ UNCHANGED crashed

\* what a builder leaves alone
BuilderUnchanged ==
    UNCHANGED <<params, macAddress, contikiVersion, conectricVersion, serialPort, parser,
                device, pendingStarts, cache, sweepPhase, delivered, handshakes, lastSent, got>>

sendTextMessage(p) ==
    /\ ~crashed
    /\ IF ~TEXT_MESSAGE_SCHEMA(p) THEN Reject("sendTextMessage", p)
       ELSE LET encodedPayload == hexEncode(p["message"])
                msgLen == 5 + Len(p["message"])
                hexLen == PadHex(ToHex(msgLen))
            IN  Write("sendTextMessage", p, p,
                      <<"<">> \o hexLen \o <<"6", "1">> \o p["destination"] \o <<"0", "1">>
                      \o encodedPayload)
    /\ BuilderUnchanged

\* _sendRS485Message(params), as the two request builders call it: `left` is the object
\* with the default of hexEncodePayload added, msgLen is counted in halves
_sendRS485Message(name, p, q) ==
    LET left == IF "hexEncodePayload" \in DOMAIN q THEN q ELSE With(q, "hexEncodePayload", JsTrue)
        encode == left["hexEncodePayload"] = JsTrue
        encodedPayload == IF encode THEN hexEncode(left["message"]) ELSE left["message"]
        msgLen == IF encode THEN 2 * (5 + Len(left["message"])) ELSE 10 + Len(left["message"])
        hexLen == PadHex(HalvesToHex(msgLen))
    IN  Write(name, p, left,
              <<"<">> \o hexLen \o NumberToString(left["msgCode"]) \o left["destination"]
              \o <<"0", "1">> \o encodedPayload)

sendRS485ChunkRequest(p) ==
    /\ ~crashed
    /\ IF ~RS485_CHUNKED_MESSAGE_SCHEMA(p) THEN Reject("sendRS485ChunkRequest", p)
       ELSE LET chunkNumberHex == PadHex(ToHex(p["chunkNumber"]))
                chunkSizeHex == PadHex(ToHex(p["chunkSize"]))
            IN  _sendRS485Message("sendRS485ChunkRequest", p,
                    With(With(With(p, "msgCode", 38), "message", chunkNumberHex \o chunkSizeHex),
                         "hexEncodePayload", JsFalse))
    /\ BuilderUnchanged

sendLEDConfigMessage(p) ==
    /\ ~crashed
    /\ IF ~LED_CONFIG_MESSAGE_SCHEMA(p) THEN Reject("sendLEDConfigMessage", p)
       ELSE LET msgCode == <<"1", "c">>
                destinationSensorType ==
                    CASE p["sensorType"] = "moisture" -> <<"5", "9">>
                      [] p["sensorType"] = "motion" -> <<"0", "4">>
                      [] p["sensorType"] = "switch" -> <<"0", "5">>
                      [] p["sensorType"] = "tempHumidity" -> <<"2", "9">>
                      [] p["sensorType"] = "tempHumidityLight" -> <<"5", "A">>
                txLED == IF p["leds"]["tx"] = JsTrue THEN TX_LED_DEFAULT_COLOR ELSE <<"0", "0">>
                rxLED == IF p["leds"]["rx"] = JsTrue THEN RX_LED_DEFAULT_COLOR ELSE <<"0", "0">>
                activityLED == IF p["leds"]["activity"] = JsTrue
                               THEN ACTIVITY_LED_DEFAULT_COLOR ELSE <<"0", "0">>
                deploymentLifetime == ToHex(p["deploymentLifetime"])
                msg == msgCode \o p["destination"] \o <<"0", "1">> \o deploymentLifetime
                       \o <<"c", "1", "0", "8">> \o destinationSensorType
                       \o <<"0", "7", "0", "1", "0", "2", "0", "4">>
                       \o txLED \o rxLED \o activityLED \o <<"0", "0">>
                hexLen == PadHex(HalvesToHex(2 + Len(msg)))
            IN  Write("sendLEDConfigMessage", p, With(p, "msgCode", msgCode),
                      <<"<">> \o hexLen \o msg)
    /\ BuilderUnchanged

sendRS485Request(p) ==
    /\ ~crashed
    /\ IF ~RS485_MESSAGE_SCHEMA(p) THEN Reject("sendRS485Request", p)
       ELSE _sendRS485Message("sendRS485Request", p, With(p, "msgCode", 36))
    /\ BuilderUnchanged

sendRS485ConfigMessage(p) ==
    /\ ~crashed
    /\ IF ~RS485_CONFIG_MESSAGE_SCHEMA(p) THEN Reject("sendRS485ConfigMessage", p)
       ELSE LET undefined == <<"u", "n", "d", "e", "f", "i", "n", "e", "d">>
                baudRate ==
                    IF "baudRate" \notin DOMAIN p THEN undefined ELSE
                    CASE p["baudRate"] = 2400 -> <<"0", "0">>
                      [] p["baudRate"] = 4800 -> <<"0", "1">>
                      [] p["baudRate"] = 9600 -> <<"0", "2">>
                      [] p["baudRate"] = 19200 -> <<"0", "3">>
                given == IF "parity" \in DOMAIN p THEN p["parity"] ELSE None
                parity ==
                    CASE given = PARITY_NONE -> <<"0", "0">>
                      [] given = PARITY_ODD -> <<"0", "1">>
                      [] given = PARITY_EVEN -> <<"0", "2">>
                      [] OTHER -> undefined
                stopBits == IF "stopBits" \in DOMAIN p /\ p["stopBits"] = 1
                            THEN <<"0", "0">> ELSE <<"0", "1">>
                bitMask == IF "bitMask" \in DOMAIN p /\ p["bitMask"] = 8
                           THEN <<"0", "0">> ELSE <<"0", "1">>
            IN  Write("sendRS485ConfigMessage", p, p,
                      <<"<", "0", "9", "7", "0">> \o p["destination"] \o <<"0", "1">>
                      \o baudRate \o parity \o stopBits \o bitMask)
    /\ BuilderUnchanged

-----------------------------------------------------------------------------
(* SpecOut: the builders, called with fresh objects and with the object of *)
(* the call before, on a gateway that is up and on one never started.      *)

Destinations == {<<"1", "2", "3", "4">>, <<"1", "2", "3">>}

\* messages: none, one character, two, three, one above code unit 255, the longest the
\* schemas let pass and one character more
Messages ==
    {Empty, <<"a">>, <<"3", "1">>, <<"a", "b", "c">>, <<FromCharCode(8364)>>,
     [i \in 1..MaxMessage |-> "a"], [i \in 1..(MaxMessage + 1) |-> "a"]}

TextParams ==
    {("message" :> m) @@ ("destination" :> d) : m \in Messages, d \in Destinations}
    \cup {"message" :> <<"a">>,
          ("message" :> <<"a">>) @@ ("destination" :> <<"1", "2", "3", "4">>) @@ ("retries" :> 1)}

RS485Params ==
    {("message" :> m) @@ ("destination" :> d) : m \in Messages, d \in Destinations}
    \cup {("message" :> m) @@ ("destination" :> <<"1", "2", "3", "4">>) @@ ("hexEncodePayload" :> h) :
              m \in Messages, h \in {JsFalse}}
    \cup {("message" :> <<"a">>) @@ ("destination" :> <<"1", "2", "3", "4">>)
          @@ ("hexEncodePayload" :> JsTrue)}

ChunkParams ==
    {("chunkNumber" :> n) @@ ("chunkSize" :> z) @@ ("destination" :> d) :
         n \in {-1, 0, 256}, z \in {0, 1}, d \in Destinations}

LEDParams ==
    {("destination" :> d) @@ ("sensorType" :> t) @@ ("leds" :> l) @@ ("deploymentLifetime" :> n) :
         d \in Destinations,
         t \in {"tempHumidityLight", "rs485"},
         l \in {("tx" :> JsTrue) @@ ("rx" :> JsFalse) @@ ("activity" :> JsTrue),
                ("tx" :> JsTrue) @@ ("rx" :> JsFalse)},
         n \in {-1, 0, 255}}

ConfigParams ==
    {("baudRate" :> b) @@ ("parity" :> y) @@ ("stopBits" :> t) @@ ("bitMask" :> k)
     @@ ("destination" :> d) :
         b \in {9600, 1200}, y \in {"none", "mark"}, t \in {1}, k \in {8},
         d \in Destinations}
    \cup {"destination" :> <<"1", "2", "3", "4">>,
          ("destination" :> <<"1", "2", "3", "4">>) @@ ("parity" :> "even")}

\* the object of the call before, handed in again
Again == IF sendParams = NoObject THEN {} ELSE {sendParams}

OutInit == Init \/ Ready("onSensorMessage" :> JsFunction)

OutNext ==
    \/ \E p \in TextParams \cup Again : sendTextMessage(p)
    \/ \E p \in RS485Params \cup Again : sendRS485Request(p)
    \/ \E p \in ChunkParams \cup Again : sendRS485ChunkRequest(p)
    \/ \E p \in LEDParams \cup Again : sendLEDConfigMessage(p)
    \/ \E p \in ConfigParams \cup Again : sendRS485ConfigMessage(p)

SpecOut == OutInit /\ [][OutNext]_vars

-----------------------------------------------------------------------------
(* SpecCodec: hexEncode applied to a byte string, hexDecode applied to     *)
(* what it returned.                                                       *)

\* the bytes that strings of two are made of: 0, two below 16, 16, a letter and 255
PairBytes == {0, 10, 15, 16, 97, 255}

\* the byte strings: the empty one, every byte alone, and pairs
ByteStrings ==
    {Empty} \cup {<<FromCharCode(n)>> : n \in 0..255}
    \cup {<<FromCharCode(m), FromCharCode(n)>> : m \in PairBytes, n \in PairBytes}

CodecInit ==
    /\ params = NoObject
    /\ macAddress = Undefined
    /\ contikiVersion = Undefined
    /\ conectricVersion = Undefined
    /\ serialPort = None
    /\ parser = None
    /\ device = FALSE
    /\ pendingStarts = 0
    /\ cache = EmptyObject
    /\ sweepPhase = 0
    /\ rec \in ByteStrings
    /\ out = Did("constructed")
    /\ written = <<>>
    /\ sendParams = NoObject
    /\ crashed = FALSE
    /\ delivered = EmptyObject
    /\ handshakes = EmptyObject
    /\ lastSent = EmptyObject
    /\ got = {}

\* what a call of the codec leaves alone
CodecUnchanged ==
    UNCHANGED <<params, macAddress, contikiVersion, conectricVersion, serialPort, parser,
                device, pendingStarts, cache, sweepPhase, rec, written, sendParams, crashed,
                delivered, handshakes, lastSent, got>>

\* hexEncode(rec)
Encode ==
    /\ out.kind = "constructed"
    /\ out' = [kind |-> "hexEncode", message |-> hexEncode(rec)]
    /\ CodecUnchanged

\* hexDecode of what hexEncode returned
Decode ==
    /\ out.kind = "hexEncode"
    /\ out' = [kind |-> "hexDecode", message |-> hexDecode(out.message)]
    /\ CodecUnchanged

CodecNext == Encode \/ Decode

SpecCodec == CodecInit /\ [][CodecNext]_vars

\* C18: for every string of code units 0..255, hexEncode returns two lowercase hex
\* digits for every unit, and hexDecode of that is the string
C18_HexRoundTrip ==
    /\ out.kind = "hexEncode" =>
          /\ Len(out.message) = 2 * Len(rec)
          /\ \A i \in 1..Len(out.message) : \E d \in 1..16 : out.message[i] = HexDigits[d]
    /\ out.kind = "hexDecode" => out.message = rec

\* the bytes 10 and 255 went through both
C18_Witness ==
    /\ out.kind = "hexDecode"
    /\ rec = <<FromCharCode(10), FromCharCode(255)>>
    /\ out.message = rec

-----------------------------------------------------------------------------
(* Properties of the gate, checked under Spec.                             *)

\* C1: a '>' record goes to parseMessage, and so can reach onSensorMessage, only in a
\* state where macAddress, contikiVersion and conectricVersion are all known; in any
\* other state it makes no callback
C1_FramesOnlyWithIdentity ==
    [][ParsedFrame =>
          /\ macAddress \notin {Undefined, Empty}
          /\ contikiVersion \notin {Undefined, Empty}
          /\ conectricVersion \notin {Undefined, Empty}]_vars

\* a frame arrived with the MAC address and the Contiki version known and the Conectric
\* version not, and went unprocessed
C1_Witness ==
    /\ rec = SwitchEvent
    /\ out.kind = "unprocessed"
    /\ macAddress \notin {Undefined, Empty}
    /\ contikiVersion \notin {Undefined, Empty}
    /\ conectricVersion = Undefined

-----------------------------------------------------------------------------
(* Properties of the decoding, checked under SpecParse.                    *)

\* C4: a frame whose header byte has bit 7 set (extended header) or whose bits 5-6 are
\* not 0x20 (another payload type) never makes onSensorMessage run, whatever the rest of
\* the frame and the options are
C4_UnsupportedHeaderNeverDelivered ==
    out.kind = "callback" =>
        /\ BitAnd128(HeaderOf(rec)) = 0
        /\ BitAnd96(HeaderOf(rec)) = 32

\* a frame with another payload type was handled, and dropped
C4_Witness ==
    /\ out.kind = "return"
    /\ StartsWith(rec, <<">">>)
    /\ BitAnd128(HeaderOf(rec)) = 0
    /\ BitAnd96(HeaderOf(rec)) = 64

\* C5: a frame whose type code, the two characters at 2 + headerLength * 2, is one of
\* 33, 34, 35 or is no key of the registry never makes onSensorMessage run
C5_UnregisteredTypeNeverDelivered ==
    out.kind = "callback" =>
        /\ TypeOf(rec) \notin IGNORABLE_MESSAGE_TYPES
        /\ MESSAGE_TYPES(TypeOf(rec)) # None

\* a frame of header length 0, whose type 33 stands where other frames have the
\* sequence number, was handled and dropped
C5_Witness ==
    /\ out.kind = "return"
    /\ StartsWith(rec, <<">">>)
    /\ BitAnd31(HeaderOf(rec)) = 0
    /\ BitAnd96(HeaderOf(rec)) = 32
    /\ TypeOf(rec) = <<"3", "3">>

\* C6: a frame that is to be dropped is dropped silently under every option, debugMode
\* included: parseMessage throws nothing and the gateway handles the next record
C6_DroppedFrameNeverThrows == out.kind # "throw" /\ ~crashed

\* the type a status report is delivered under: moisture and switch frames whose message
\* data starts with 21 or 22, motion frames whose message data starts with 20
StatusTypeOf(record) ==
    LET type == MESSAGE_TYPES(TypeOf(record))
        messageData == MessageDataOf(record)
        marked == StartsWith(messageData, <<"2", "1">>) \/ StartsWith(messageData, <<"2", "2">>)
    IN  CASE type = "moisture" /\ marked -> "moistureStatus"
          [] type = "switch" /\ marked -> "switchStatus"
          [] type = "motion" /\ StartsWith(messageData, <<"2", "0">>) -> "motionStatus"
          [] OTHER -> None

\* C7: under every option a status report reaches onSensorMessage only when
\* sendStatusMessages is on, and then as moistureStatus, switchStatus or motionStatus
C7_StatusOnlyWhenEnabled ==
    (out.kind = "callback" /\ StatusTypeOf(rec) # None) =>
        /\ Option("sendStatusMessages")
        /\ out.message["type"] = StatusTypeOf(rec)

\* the reset cause a boot frame's message data stands for
ResetCauseOf(record) ==
    LET messageData == MessageDataOf(record)
    IN  CASE messageData = <<"0", "0">> -> "powerOn"
          [] messageData = <<"0", "1">> -> "externalReset"
          [] messageData = <<"0", "2">> -> "watchdogReset"
          [] OTHER -> "unknown"

\* C8: under every option a boot frame reaches onSensorMessage only when sendBootMessages
\* is on, and then with the reset cause its message data stands for
C8_BootOnlyWhenEnabled ==
    (out.kind = "callback" /\ MESSAGE_TYPES(TypeOf(rec)) = "boot") =>
        /\ Option("sendBootMessages")
        /\ "payload" \in DOMAIN out.message
        /\ out.message["payload"]["resetCause"] = ResetCauseOf(rec)

-----------------------------------------------------------------------------
(* Properties of the builders, checked under SpecOut.                      *)

\* the last step was a call of a builder
BuilderCalled == out.kind \in {"true", "false", "throw"} /\ DOMAIN rec = {"builder", "params"}

\* the schema of the builder that was called holds of the object it was called with
SchemaHolds ==
    CASE rec.builder = "sendTextMessage" -> TEXT_MESSAGE_SCHEMA(rec.params)
      [] rec.builder = "sendRS485Request" -> RS485_MESSAGE_SCHEMA(rec.params)
      [] rec.builder = "sendRS485ChunkRequest" -> RS485_CHUNKED_MESSAGE_SCHEMA(rec.params)
      [] rec.builder = "sendRS485ConfigMessage" -> RS485_CONFIG_MESSAGE_SCHEMA(rec.params)
      [] rec.builder = "sendLEDConfigMessage" -> LED_CONFIG_MESSAGE_SCHEMA(rec.params)

\* C9: a builder called with a destination that has not exactly 4 characters, or a text
\* or RS-485 request builder called with a message of no or of more than 250 characters,
\* returns false and writes nothing; whatever a builder writes, it writes for an object
\* its schema holds of, and it returns false for no such object
C9_RejectWithoutWrite ==
    BuilderCalled =>
        /\ (\/ "destination" \notin DOMAIN rec.params
            \/ Len(rec.params["destination"]) # 4
            \/ /\ rec.builder \in {"sendTextMessage", "sendRS485Request"}
               /\ \/ "message" \notin DOMAIN rec.params
                  \/ Len(rec.params["message"]) = 0
                  \/ Len(rec.params["message"]) > 250)
           => (out.kind = "false" /\ out.message = Empty)
        /\ ~SchemaHolds => (out.kind = "false" /\ out.message = Empty)
        /\ out.kind = "true" => SchemaHolds
        /\ out.kind = "false" => ~SchemaHolds

\* sendTextMessage, called with a destination of three characters after a line had been
\* written, returned false and the line written before is still the last
C9_Witness ==
    /\ BuilderCalled
    /\ rec.builder = "sendTextMessage"
    /\ DOMAIN rec.params = {"message", "destination"}
    /\ Len(rec.params["message"]) = 1
    /\ Len(rec.params["destination"]) = 3
    /\ out.kind = "false"
    /\ written # Empty

\* C10: whatever the text builder and the two RS-485 request builders write is '<', a
\* length field of two lowercase hex digits, the message code, the destination, 01 and
\* the payload, and the length field's value is 5 plus half the payload's characters
C10_LengthField ==
    (BuilderCalled /\ out.kind = "true"
     /\ rec.builder \in {"sendTextMessage", "sendRS485Request", "sendRS485ChunkRequest"}) =>
        LET outboundMessage == out.message
            hexLen == Substring(outboundMessage, 1, 3)
            payload == SubstringFrom(outboundMessage, 11)
        IN  /\ Len(hexLen) = 2
            /\ \A i \in 1..2 : \E d \in 1..16 : hexLen[i] = HexDigits[d]
            /\ Substring(outboundMessage, 5, 9) = rec.params["destination"]
            /\ Substring(outboundMessage, 9, 11) = <<"0", "1">>
            /\ 2 * ParseInt16(hexLen) = 10 + Len(payload)

-----------------------------------------------------------------------------
(* Properties of the bring-up, checked under SpecBringUp.                  *)

\* the step handled a '>' record
FrameHandled == out'.kind \in {"callback", "return", "throw", "unprocessed"}

\* C11: after MR:1234, ver:contiki1.0, ver:conectric-v2.0 and SS:Ok the frame
\* >300030ff00001234000029xxxxCRCC makes onSensorMessage run, with a message of type
\* tempHumidity that has a sensorId, a temperature and a humidity
C11_EndToEndTempHumidity ==
    [][(rec' = Frame30 /\ FrameHandled
        /\ macAddress = <<"1", "2", "3", "4">>
        /\ {"MR", "contiki", "conectric", "SS:Ok"} \subseteq got) =>
          /\ out'.kind = "callback"
          /\ out'.message["type"] = "tempHumidity"
          /\ "sensorId" \in DOMAIN out'.message
          /\ {"temperature", "humidity"} \subseteq DOMAIN out'.message["payload"]]_vars

\* C12: onSensorMessage runs only after SS:Ok was received since the router was last
\* lost
C12_NoDeliveryBeforeReady == out.kind = "callback" => "SS:Ok" \in got

\* C13: after the router was lost no '>' record goes to parseMessage before the MAC
\* address and both versions were received again
C13_NoFrameAfterLossBeforeHandshake ==
    out.kind \in {"callback", "return", "throw"} => {"MR", "contiki", "conectric"} \subseteq got

\* the place of a command in the order DP, VER, MR, SS
OrderOf(command) ==
    CASE command = "DP" -> 1 [] command = "VER" -> 2 [] command = "MR" -> 3 [] command = "SS" -> 4

C15_ReadyAfterAllStates ==
    out.kind = "onGatewayReady" => {"MR", "contiki", "conectric", "DP:Ok"} \subseteq got

\* C16: no timer of the bring-up acts after the port was lost: a timer that fires finds
\* the router plugged in and the port open, and writes without an exception
C16_NoTimerAfterLoss ==
    out.kind \in {"handshake", "TypeError"} =>
        /\ out.kind = "handshake"
        /\ out.port = "open"
        /\ device

\* C17: a record that comes after the MAC address, the Contiki version or the Conectric
\* version was received, the router not lost since, leaves that field as it is
C17_IdentitySetOnce ==
    [][/\ ("MR" \in got /\ out'.kind = "macAddress") => macAddress' = macAddress
       /\ ("contiki" \in got /\ out'.kind = "contikiVersion") => contikiVersion' = contikiVersion
       /\ ("conectric" \in got /\ out'.kind = "conectricVersion") =>
              conectricVersion' = conectricVersion]_vars

-----------------------------------------------------------------------------
(* Properties of the RS-485 configuration, checked under SpecParse and     *)
(* SpecOut.                                                                *)

\* C19: with sendDecodedPayload on, an rs485Config frame reaches onSensorMessage only
\* with 7 characters of message data, and the message has the baud rate 2400, 4800,
\* 9600 or 19200 for 00..03 (else ?), the parity none, odd or even for 00..02 (else ?),
\* the stop bits 1 for 00 and 2 for 01 (else -1) and the bit mask 8 for 00 and 7 for 01
\* (else -1)
C19_Rs485ConfigDecoding ==
    (out.kind = "callback" /\ Option("sendDecodedPayload")
     /\ MESSAGE_TYPES(TypeOf(rec)) = "rs485Config") =>
        LET messageData == MessageDataOf(rec)
            baudRate == Substring(messageData, 0, 2)
            parity == Substring(messageData, 2, 4)
            stopBits == Substring(messageData, 4, 6)
            bitMask == SubstringFrom(messageData, 6)
            payload == out.message["payload"]
        IN  /\ Len(messageData) = 7
            /\ payload["baudRate"] = CASE baudRate = <<"0", "0">> -> "2400"
                                       [] baudRate = <<"0", "1">> -> "4800"
                                       [] baudRate = <<"0", "2">> -> "9600"
                                       [] baudRate = <<"0", "3">> -> "19200"
                                       [] OTHER -> "?"
            /\ payload["parity"] = CASE parity = <<"0", "0">> -> "none"
                                     [] parity = <<"0", "1">> -> "odd"
                                     [] parity = <<"0", "2">> -> "even"
                                     [] OTHER -> "?"
            /\ payload["stopBits"] = CASE stopBits = <<"0", "0">> -> 1
                                       [] stopBits = <<"0", "1">> -> 2
                                       [] OTHER -> -1
            /\ payload["bitMask"] = CASE bitMask = <<"0", "0">> -> 8
                                      [] bitMask = <<"0", "1">> -> 7
                                      [] OTHER -> -1

\* C20: what sendRS485ConfigMessage writes behind the reserved byte for a baud rate, a
\* parity, stop bits and a bit mask, taken as the message data of an rs485Config frame,
\* is accepted by the decoder and decodes to the same four values
C20_ConfigEncoderInvertsDecoder ==
    (BuilderCalled /\ out.kind = "true" /\ rec.builder = "sendRS485ConfigMessage"
     /\ {"baudRate", "parity", "stopBits", "bitMask"} \subseteq DOMAIN rec.params) =>
        LET decoded == DecodeRs485Config(SubstringFrom(out.message, 11))
        IN  /\ decoded.deliver
            /\ decoded.payload["baudRate"] = CASE rec.params["baudRate"] = 2400 -> "2400"
                                               [] rec.params["baudRate"] = 4800 -> "4800"
                                               [] rec.params["baudRate"] = 9600 -> "9600"
                                               [] rec.params["baudRate"] = 19200 -> "19200"
            /\ decoded.payload["parity"] = rec.params["parity"]
            /\ decoded.payload["stopBits"] = rec.params["stopBits"]
            /\ decoded.payload["bitMask"] = rec.params["bitMask"]

-----------------------------------------------------------------------------
(* Properties of runGateway, checked under Spec.                           *)

\* C21: a runGateway call with an object that lacks onSensorMessage, has it as something
\* other than a function, or has an unknown option ends before anything starts: the
\* options stay unset, no startGateway is scheduled (then or at a later attach or detach,
\* as no USB handler exists), the cache, the port, the parser and the written line stay
\* as they were; a call with a valid object leaves each of sendBootMessages,
\* sendDecodedPayload, deDuplicateBursts and decodeTextMessages the caller omitted on
C21_InvalidConfigAborts ==
    [][/\ out'.kind \in {"invalid", "runGateway"} =>
            LET acceptable ==
                    /\ "onSensorMessage" \in DOMAIN rec'
                    /\ \A k \in DOMAIN rec' :
                          \/ k \in {"onSensorMessage", "onGatewayReady"} /\ rec'[k] = JsFunction
                          \/ k \in BooleanOptions /\ rec'[k] \in {JsTrue, JsFalse}
            IN  IF acceptable
                THEN /\ out'.kind = "runGateway"
                     /\ \A k \in DOMAIN rec' : params'[k] = rec'[k]
                     /\ \A k \in {"sendBootMessages", "sendDecodedPayload",
                                  "deDuplicateBursts", "decodeTextMessages"} \ DOMAIN rec' :
                           k \in DOMAIN params' /\ params'[k] = JsTrue
                ELSE /\ out'.kind = "invalid"
                     /\ UNCHANGED <<params, pendingStarts, cache, sweepPhase, serialPort,
                                    parser, written, macAddress, contikiVersion,
                                    conectricVersion>>
       /\ params' = NoObject =>
            /\ pendingStarts' = 0 /\ cache' = EmptyObject /\ written' = <<>>
            /\ serialPort' = None /\ parser' = None]_vars

C21_Witness ==
    /\ out.kind = "invalid"
    /\ "verbose" \in DOMAIN rec
    /\ params = NoObject
    /\ pendingStarts = 0

-----------------------------------------------------------------------------
(* Further properties of the builders, checked under SpecOut.              *)

\* C22: whatever sendRS485ChunkRequest writes for a chunk number of 0 or more and a chunk
\* size of 1 or more is '<', a length field, the type code 38, the destination, 01 and a
\* payload of exactly two bytes: two hex digits that are the chunk number and two hex
\* digits that are the chunk size
C22_ChunkPayloadTwoBytes ==
    (BuilderCalled /\ out.kind = "true" /\ rec.builder = "sendRS485ChunkRequest") =>
        LET outboundMessage == out.message
            payload == SubstringFrom(outboundMessage, 11)
        IN  /\ Substring(outboundMessage, 3, 5) = <<"3", "8">>
            /\ Substring(outboundMessage, 5, 9) = rec.params["destination"]
            /\ Len(payload) = 4
            /\ \A i \in 1..4 : IsHexDigit(payload[i])
            /\ ParseInt16(Substring(payload, 0, 2)) = rec.params["chunkNumber"]
            /\ ParseInt16(Substring(payload, 2, 4)) = rec.params["chunkSize"]

-----------------------------------------------------------------------------
(* SpecCalc: calculateTemperature and calculateHumidity applied to a raw   *)
(* 16-bit reading, with useFahrenheitTemps off and on.                     *)

\* the raw readings: every high byte with a low byte of 00, and the ends of the range
RawReadings ==
    {<<HexDigits[a], HexDigits[b], "0", "0">> : a \in 1..16, b \in 1..16}
    \cup {<<"0", "0", "0", "1">>, <<"f", "f", "f", "f">>}

\* the option objects: Celsius (the default) and Fahrenheit
CalcCallers ==
    {"onSensorMessage" :> JsFunction,
     ("onSensorMessage" :> JsFunction) @@ ("useFahrenheitTemps" :> JsTrue)}

CalcInit ==
    /\ params \in {WithDefaults(p) : p \in CalcCallers}
    /\ macAddress = <<"1", "2", "3", "4">>
    /\ contikiVersion = <<"3", ".", "x">>
    /\ conectricVersion = <<"1", ".", "0">>
    /\ serialPort = "open"
    /\ parser = "parser"
    /\ device = TRUE
    /\ pendingStarts = 0
    /\ cache = EmptyObject
    /\ sweepPhase = 0
    /\ rec \in RawReadings
    /\ out = Did("constructed")
    /\ written = <<>>
    /\ sendParams = NoObject
    /\ crashed = FALSE
    /\ delivered = EmptyObject
    /\ handshakes = EmptyObject
    /\ lastSent = EmptyObject
    /\ got = {}

\* calculateTemperature(rec)
Temperature ==
    /\ out.kind = "constructed"
    /\ out' = [kind |-> "calculateTemperature", message |-> calculateTemperature(rec)]
    /\ CodecUnchanged

\* calculateHumidity(rec)
Humidity ==
    /\ out.kind = "constructed"
    /\ out' = [kind |-> "calculateHumidity", message |-> calculateHumidity(rec)]
    /\ CodecUnchanged

CalcNext == Temperature \/ Humidity

SpecCalc == CalcInit /\ [][CalcNext]_vars

\* x, in hundredths, is y / 65536 rounded to the nearest hundredth
NearestHundredth(x, y) ==
    LET d == 65536 * x - y IN (IF d < 0 THEN -d ELSE d) <= 32768

\* what calculateTemperature and calculateHumidity returned follows the formulas:
\* celsius = round2(-46.85 + (t / 65536) * 175.72), fahrenheit = round2(celsius * 9 / 5 + 32)
\* with the unit F when useFahrenheitTemps is on, the unit C otherwise, and
\* percentage = round2(-6 + 125 * (h / 65536))
FollowsFormulas ==
    LET raw == ParseInt16(rec)
    IN  /\ out.kind = "calculateTemperature" =>
            \E celsius \in -4685..12887 :
               /\ NearestHundredth(celsius, raw * 17572 - 4685 * 65536)
               /\ IF Option("useFahrenheitTemps")
                  THEN /\ out.message["temperatureUnit"] = "F"
                       /\ LET d == 5 * out.message["temperature"] - (9 * celsius + 16000)
                          IN  2 * (IF d < 0 THEN -d ELSE d) <= 5
                  ELSE /\ out.message["temperatureUnit"] = "C"
                       /\ out.message["temperature"] = celsius
        /\ out.kind = "calculateHumidity" =>
               NearestHundredth(out.message, raw * 12500 - 600 * 65536)

\* C23 as stated: the results follow the formulas, the raw temperature 8000 gives 41.52
\* Celsius and the raw humidity 4000 gives 25.0
C23_AsStated ==
    /\ FollowsFormulas
    /\ (out.kind = "calculateTemperature" /\ rec = <<"8", "0", "0", "0">>
        /\ ~Option("useFahrenheitTemps")) => out.message["temperature"] = 4152
    /\ (out.kind = "calculateHumidity" /\ rec = <<"4", "0", "0", "0">>) => out.message = 2500

\* C23: the results of calculateTemperature and calculateHumidity follow the formulas
\* celsius = round2(-46.85 + (t / 65536) * 175.72) and percentage =
\* round2(-6 + 125 * (h / 65536)); the raw temperature 8000 gives 41.01 Celsius and the
\* raw humidity 4000 gives 25.25
C23_FormulasAndExamples ==
    /\ FollowsFormulas
    /\ (out.kind = "calculateTemperature" /\ rec = <<"8", "0", "0", "0">>
        /\ ~Option("useFahrenheitTemps")) => out.message["temperature"] = 4101
    /\ (out.kind = "calculateHumidity" /\ rec = <<"4", "0", "0", "0">>) => out.message = 2525

C23_Witness ==
    /\ out.kind = "calculateTemperature"
    /\ rec = <<"8", "0", "0", "0">>
    /\ out.message = ("temperature" :> 4101) @@ ("temperatureUnit" :> "C")

\* C24: whatever sendRS485ConfigMessage writes for an object its schema accepts, a field
\* given or not, is '<0970', the destination, 01 and four codes of two hex digits each,
\* 19 characters for the 9 bytes of the length field; a field that is given has the code
\* of its value (baud rate 2400, 4800, 9600, 19200: 00..03; parity none, odd, even:
\* 00..02; stop bits 1, 2: 00, 01; bit mask 8, 7: 00, 01) and a field that is not given
\* has none of the codes of its values
C24_ConfigFrameShape ==
    (BuilderCalled /\ out.kind = "true" /\ rec.builder = "sendRS485ConfigMessage") =>
        LET outboundMessage == out.message
            given == rec.params
            baudRate == Substring(outboundMessage, 11, 13)
            parity == Substring(outboundMessage, 13, 15)
            stopBits == Substring(outboundMessage, 15, 17)
            bitMask == Substring(outboundMessage, 17, 19)
        IN  /\ Len(outboundMessage) = 19
            /\ Substring(outboundMessage, 0, 5) = <<"<", "0", "9", "7", "0">>
            /\ Substring(outboundMessage, 5, 9) = given["destination"]
            /\ Substring(outboundMessage, 9, 11) = <<"0", "1">>
            /\ \A i \in 12..Len(outboundMessage) : IsHexDigit(outboundMessage[i])
            /\ IF "baudRate" \in DOMAIN given
               THEN baudRate = CASE given["baudRate"] = 2400 -> <<"0", "0">>
                                 [] given["baudRate"] = 4800 -> <<"0", "1">>
                                 [] given["baudRate"] = 9600 -> <<"0", "2">>
                                 [] given["baudRate"] = 19200 -> <<"0", "3">>
               ELSE baudRate \notin {<<"0", "0">>, <<"0", "1">>, <<"0", "2">>, <<"0", "3">>}
            /\ IF "parity" \in DOMAIN given
               THEN parity = CASE given["parity"] = "none" -> <<"0", "0">>
                               [] given["parity"] = "odd" -> <<"0", "1">>
                               [] given["parity"] = "even" -> <<"0", "2">>
               ELSE parity \notin {<<"0", "0">>, <<"0", "1">>, <<"0", "2">>}
            /\ IF "stopBits" \in DOMAIN given
               THEN stopBits = (IF given["stopBits"] = 1 THEN <<"0", "0">> ELSE <<"0", "1">>)
               ELSE stopBits \notin {<<"0", "0">>, <<"0", "1">>}
            /\ IF "bitMask" \in DOMAIN given
               THEN bitMask = (IF given["bitMask"] = 8 THEN <<"0", "0">> ELSE <<"0", "1">>)
               ELSE bitMask \notin {<<"0", "0">>, <<"0", "1">>}

\* C25: whatever sendLEDConfigMessage writes for a deployment lifetime of 0 or more is
\* '<' and an even number of hex characters, the first two of which are the length
\* field, whose value is 1 plus the number of bytes behind it
C25_LEDFrameWholeBytes ==
    (BuilderCalled /\ out.kind = "true" /\ rec.builder = "sendLEDConfigMessage") =>
        LET outboundMessage == out.message
            hexLen == Substring(outboundMessage, 1, 3)
            msg == SubstringFrom(outboundMessage, 3)
        IN  /\ (Len(outboundMessage) - 1) % 2 = 0
            /\ \A i \in 2..Len(outboundMessage) : IsHexDigit(outboundMessage[i])
            /\ 2 * ParseInt16(hexLen) = 2 + Len(msg)

-----------------------------------------------------------------------------
(* SpecKeys: as SpecDedup, with two frames of one sensor that differ in    *)
(* the sequence number and in the message data.                            *)

\* switch frames: sequence number 0x64 with the message data 81, and sequence number
\* 0x01 with the message data 0081
KeyFrames ==
    {MakeFrame(StandardHeader, <<"6", "4">>, <<"3", "1">>, EventData),
     MakeFrame(StandardHeader, Sequence01, <<"3", "1">>, <<"0", "0">> \o EventData)}

KeysNext ==
    \/ \E f \in KeyFrames :
          /\ ParserData(f)
          /\ UNCHANGED <<sendParams, handshakes, lastSent, got>>
          /\ delivered' = IF out'.kind = "callback" THEN (f :> 0) @@ delivered ELSE delivered
    \/ /\ Tick
       /\ UNCHANGED <<sendParams, handshakes, lastSent, got>>
       /\ delivered' = [f \in DOMAIN delivered |-> Min(delivered[f] + 1, TTL + INTERVAL)]

SpecKeys == DedupInit /\ [][KeysNext]_vars

\* C26: with deDuplicateBursts on, a frame is dropped as seen before only if
\* onSensorMessage ran, within the time the cache keeps a key, for a frame with the
\* same source address, the same sequence number and the same message data
C26_KeyInjective ==
    [][(ParsedFrame /\ Option("deDuplicateBursts") /\ out'.kind = "return") =>
          \E f \in DOMAIN delivered :
             /\ delivered[f] < TTL + INTERVAL
             /\ Substring(f, 9, 13) = Substring(rec', 9, 13)
             /\ ParseInt16(Substring(f, 3, 5)) = ParseInt16(Substring(rec', 3, 5))
             /\ MessageDataOf(f) = MessageDataOf(rec')]_vars

-----------------------------------------------------------------------------
(* Further properties of the gate, checked under Spec.                     *)

\* C27: once macAddress, contikiVersion and conectricVersion are all known, they stay
\* known, and '>' records go to parseMessage, until startGateway finds the router gone:
\* no record of the serial line closes the gate
C27_GateStaysOpen ==
    [][(GateOpen /\ out'.kind # "waiting") => GateOpen']_vars

\* C28: a '>' record that arrives while macAddress, contikiVersion or conectricVersion
\* is not known runs no callback and leaves everything but the record of the last input
\* as it was: the identity, the options, the port, the parser, the cache and its clock,
\* the pending starts; nothing of the record is kept for later
C28_ClosedGateDiscards ==
    [][(/\ out'.kind \in {"callback", "return", "throw", "unprocessed", "known"}
        /\ StartsWith(rec', <<">">>)
        /\ ~(Truthy(conectricVersion) /\ Truthy(contikiVersion) /\ Truthy(macAddress))) =>
          /\ out' = Did("unprocessed")
          /\ UNCHANGED <<params, macAddress, contikiVersion, conectricVersion, serialPort,
                         parser, device, pendingStarts, cache, sweepPhase, written,
                         sendParams, crashed, delivered, handshakes, lastSent, got>>]_vars

\* a frame went unprocessed after the record MR: had emptied the MAC address; a frame
\* handled before that has its key in the cache
C28_Witness ==
    /\ rec = SwitchEvent
    /\ out.kind = "unprocessed"
    /\ macAddress = Empty
    /\ Truthy(contikiVersion)
    /\ Truthy(conectricVersion)
    /\ cache # EmptyObject

-----------------------------------------------------------------------------
(* Further properties of the de-duplication, checked under SpecDedup.      *)

\* C29: with deDuplicateBursts on, a repeat that is dropped leaves the cache as it is,
\* keys and ages; the age of a frame's key is always the time since onSensorMessage ran
\* for the frame, however many repeats were dropped since; and 33 seconds after that
\* (30 and a sweep interval of 3) the key is gone, so that the next repeat is delivered
C29_WindowAnchored ==
    [][Option("deDuplicateBursts") =>
          /\ (ParsedFrame /\ out'.kind = "return") => cache' = cache
          /\ \A f \in DOMAIN delivered' :
                /\ KeyOf(f) \in DOMAIN cache' => cache'[KeyOf(f)] = delivered'[f]
                /\ delivered'[f] >= TTL + INTERVAL => KeyOf(f) \notin DOMAIN cache'
          /\ (ParsedFrame /\ rec' \in DOMAIN delivered
              /\ delivered[rec'] >= TTL + INTERVAL) => out'.kind = "callback"]_vars

\* a repeat was dropped 31 seconds after the frame was delivered, the sweep not yet
\* having passed, and the key is as old as the delivery
C29_Witness ==
    /\ Option("deDuplicateBursts")
    /\ out.kind = "return"
    /\ rec \in DOMAIN delivered
    /\ delivered[rec] = TTL + 1
    /\ cache[KeyOf(rec)] = TTL + 1

-----------------------------------------------------------------------------
(* Properties of the builders called again, checked under SpecOut.         *)

\* C30: when sendRS485Request, sendRS485ChunkRequest or sendLEDConfigMessage has
\* returned true and written a frame, and the same builder is called next with the same
\* object, as the first call left it, it returns true again and writes the same frame
C30_SecondCallSameFrame ==
    [][(/\ BuilderCalled /\ out.kind = "true"
        /\ rec.builder \in {"sendRS485Request", "sendRS485ChunkRequest", "sendLEDConfigMessage"}
        /\ out'.kind \in {"true", "false", "throw"}
        /\ rec'.builder = rec.builder
        /\ rec'.params = sendParams) =>
          /\ out'.kind = "true"
          /\ out'.message = out.message
          /\ written' = written]_vars

====
